---- MODULE Spec2Model ----
(***************************************************************************)
(* Model of cement_kiln_simulator.py: a top-to-bottom script that reads    *)
(* four sliders, derives an efficiency factor, integrates the lumped kiln  *)
(* temperature over the 1000 sample times of np.linspace(0, 3600, 1000),   *)
(* classifies the final temperature, and reports CO2 and savings figures.  *)
(*                                                                         *)
(* Arithmetic is fixed point over the integers (all values stay below      *)
(* 2^31):                                                                  *)
(*   temperatures          micro-degrees C            (TempScale)          *)
(*   error, control, fuel  milli-degrees, milli-kg/hr (Milli)              *)
(*   heat flows            milli-kJ/s                                      *)
(*   dTdt                  micro-degrees C per second                      *)
(*   motor speed           tenths of an RPM (the slider step)              *)
(*   times                 1/(num-1) seconds, num the number of samples    *)
(*   co2 figures           hundredths of a kg                              *)
(*                                                                         *)
(* The names Kp, Ki and Kd are read by pid_control but are not bound in    *)
(* the file.  Either the environment binds them (gains_bound, values drawn *)
(* from GainValues) or the first call of kiln_model ends the script with a *)
(* NameError.  Likewise the report formats final_temp, a one-element row   *)
(* of odeint's output, with a float format; whether that call raises is    *)
(* the numeric library's choice, and both outcomes are steps of the model. *)
(***************************************************************************)
EXTENDS Integers, Sequences, FiniteSets, TLC

VARIABLES
    pc,                 \* position of the script
    fuel_rate,          \* slider, kg/hr                         (line 27)
    motor_speed,        \* slider, tenths of an RPM              (line 28)
    feed_rate,          \* slider, kg/hr                         (line 29)
    temp_setpoint,      \* slider, degrees C                     (line 30)
    gains_bound,        \* whether the environment binds Kp, Ki and Kd
    Kp, Ki, Kd,         \* controller gains (globals read by pid_control)
    fault,              \* "none" or the exception that ended the script
    residence_time,     \* milli-units of 30 / motor_speed       (line 33)
    efficiency_factor,  \* per mille                             (line 34)
    n,                  \* number of samples of `temperature` computed
    t,                  \* time[n], in 1/(num-1) seconds
    T,                  \* temperature[n], micro-degrees C
    T_ref,              \* the same trajectory integrated with the default
                        \* feed rate and time argument 0
    error,              \* locals of the latest kiln_model evaluation
    integral,
    derivative,
    control_signal,
    fuel_rate_adjusted,
    final_temp,         \* micro-degrees C                       (line 64)
    quality,            \*                                       (lines 67-72)
    co2_emitted,        \* hundredths of kg/hr                   (line 75)
    savings,            \* kg/year                               (line 139)
    co2_saved,          \* hundredths of kg/year                 (line 140)
    money_saved         \*                                       (line 141)

vars == << pc, fuel_rate, motor_speed, feed_rate, temp_setpoint, gains_bound,
           Kp, Ki, Kd, fault, residence_time, efficiency_factor, n, t, T, T_ref, error,
           integral, derivative, control_signal, fuel_rate_adjusted,
           final_temp, quality, co2_emitted, savings, co2_saved, money_saved >>

----------------------------------------------------------------------------
(* Fixed-point scales *)

TempScale == 10^6
Milli == 10^3

Min(a, b) == IF a <= b THEN a ELSE b
Max(a, b) == IF a >= b THEN a ELSE b

\* floor(a * b / c) for c > 0, b >= 0, computed without forming a * b
MulDiv(a, b, c) == (a \div c) * b + ((a % c) * b) \div c

----------------------------------------------------------------------------
(* Constants, lines 9-20 *)

fuel_heat_value == 32000
specific_heat == 1
\* heat_loss_coeff = 0.001 = 1 / heat_loss_coeff_inv
heat_loss_coeff_inv == 1000
ambient_temp == 30
\* co2_per_kg_fuel = 3.17, in hundredths
co2_per_kg_fuel == 317

kiln_radius == 3
kiln_length == 40
\* np.pi as the rational PiNum / PiDen
PiNum == 355
PiDen == 113
clinker_density == 1200
\* kiln_volume in thousandths of a cubic metre
kiln_volume == (PiNum * kiln_radius * kiln_radius * kiln_length * Milli) \div PiDen
\* The density factor of line 20 left out
kiln_mass_no_density == kiln_volume \div Milli
kiln_mass == MulDiv(kiln_volume, clinker_density, Milli)

----------------------------------------------------------------------------
(* Sidebar inputs, lines 27-30: values the sliders can return *)

FuelRateValues == {100, 700, 1000}
\* A motor-speed slider whose range starts at 0.0
MotorSpeedValues_zero == {0, 5, 25, 50}
MotorSpeedValues == {5, 25, 50}
FeedRateValues == {500, 3000}
SetpointValues == {1000, 1500}
feed_rate_default == 1200
\* Kp, Ki, Kd: not bound in the file; any number the environment supplies
MaxGain == 20
GainValues == {-1, 0, 1, MaxGain}
IntegralGainValues == {0, 1}

----------------------------------------------------------------------------
(* Derived values, lines 32-34 *)

residence_time_ref == 30

\* 30 / motor_speed, in thousandths (motor speed in tenths)
ResidenceTime(ms) == (residence_time_ref * 10 * Milli) \div ms

\* min(1.0, residence_time / 30), per mille
EfficiencyFactor(rt) == Min(Milli, rt \div residence_time_ref)

----------------------------------------------------------------------------
(* PID controller, lines 36-38 *)

\* error in milli-degrees; the result is in milli-kg/hr
pid_control(err, integ, deriv, kp, ki, kd) == kp * err + ki * integ + kd * deriv

----------------------------------------------------------------------------
(* Temperature differential equation, lines 40-54 *)

min_fuel_rate == 100
max_fuel_rate == 1000

FuelRateAdjusted_unclamped(fuel, control) == fuel * Milli + control

\* line 47, milli-kg/hr
FuelRateAdjusted(fuel, control) ==
    Max(min_fuel_rate * Milli, Min(max_fuel_rate * Milli, fuel * Milli + control))

\* Sign slip in line 52: (heat_loss - effective_heat_input)
kiln_model_sign(Tc, tt, fuel, feed, eff, sp, kp, ki, kd) ==
    LET err == (sp * TempScale - Tc) \div Milli
        integ == 0
        deriv == 0
        control == pid_control(err, integ, deriv, kp, ki, kd)
        adjusted == FuelRateAdjusted(fuel, control)
        heat_input_kjs == MulDiv(adjusted, fuel_heat_value, 3600)
        effective_heat_input == MulDiv(heat_input_kjs, eff, Milli)
        heat_loss == (Tc - ambient_temp * TempScale)
                         \div ((heat_loss_coeff_inv * TempScale) \div Milli)
    IN  [ error |-> err, integral |-> integ, derivative |-> deriv,
          control_signal |-> control, fuel_rate_adjusted |-> adjusted,
          dTdt |-> MulDiv(heat_loss - effective_heat_input,
                          TempScale \div Milli, kiln_mass * specific_heat) ]

\* A feed term in line 52: the feed's sensible heat, feed/3600 kg/s heated
\* from ambient, is taken out of the heat balance
kiln_model_feed_cooling(Tc, tt, fuel, feed, eff, sp, kp, ki, kd) ==
    LET err == (sp * TempScale - Tc) \div Milli
        integ == 0
        deriv == 0
        control == pid_control(err, integ, deriv, kp, ki, kd)
        adjusted == FuelRateAdjusted(fuel, control)
        heat_input_kjs == MulDiv(adjusted, fuel_heat_value, 3600)
        effective_heat_input == MulDiv(heat_input_kjs, eff, Milli)
        heat_loss == (Tc - ambient_temp * TempScale)
                         \div ((heat_loss_coeff_inv * TempScale) \div Milli)
        cooling == MulDiv(feed * specific_heat * Milli,
                          (Tc - ambient_temp * TempScale) \div TempScale, 3600)
    IN  [ error |-> err, integral |-> integ, derivative |-> deriv,
          control_signal |-> control, fuel_rate_adjusted |-> adjusted,
          dTdt |-> MulDiv(effective_heat_input - heat_loss - cooling,
                          TempScale \div Milli, kiln_mass * specific_heat) ]

\* kiln_model(T, t, fuel_rate, feed_rate), reading the globals
\* efficiency_factor, temp_setpoint, Kp, Ki, Kd.  The arguments tt and feed
\* are accepted and not used, as in the source.
kiln_model(Tc, tt, fuel, feed, eff, sp, kp, ki, kd) ==
    LET err == (sp * TempScale - Tc) \div Milli
        integ == 0
        deriv == 0
        control == pid_control(err, integ, deriv, kp, ki, kd)
        adjusted == FuelRateAdjusted(fuel, control)
        heat_input_kjs == MulDiv(adjusted, fuel_heat_value, 3600)
        effective_heat_input == MulDiv(heat_input_kjs, eff, Milli)
        heat_loss == (Tc - ambient_temp * TempScale)
                         \div ((heat_loss_coeff_inv * TempScale) \div Milli)
    IN  [ error |-> err, integral |-> integ, derivative |-> deriv,
          control_signal |-> control, fuel_rate_adjusted |-> adjusted,
          dTdt |-> MulDiv(effective_heat_input - heat_loss,
                          TempScale \div Milli, kiln_mass * specific_heat) ]

----------------------------------------------------------------------------
(* Time points and initial condition, lines 56-58 *)

time_start == 0
time_stop == 3600
num_points == 1000
initial_temp == 400

\* np.arange(start, start + num): unit spacing instead of an even division
linspace_arange(start, stop, num) ==
    [i \in 1..num |-> start * (num - 1) + (i - 1) * (num - 1)]

\* np.linspace(start, stop, num), each value in units of 1/(num-1)
linspace(start, stop, num) ==
    [i \in 1..num |-> start * (num - 1) + (i - 1) * (stop - start)]

time == linspace(time_start, time_stop, num_points)

----------------------------------------------------------------------------
(* Quality, lines 63-72 *)

good_threshold == 1350
partial_threshold == 1200

Quality_strict(ft) ==
    IF ft > good_threshold * TempScale THEN "Good"
    ELSE IF ft > partial_threshold * TempScale THEN "Partial"
    ELSE "Poor"

Quality(ft) ==
    IF ft >= good_threshold * TempScale THEN "Good"
    ELSE IF ft >= partial_threshold * TempScale THEN "Partial"
    ELSE "Poor"

----------------------------------------------------------------------------
(* CO2 and savings, lines 74-75 and 135-141 *)

\* hundredths of kg/hr
Co2Emitted(fuel) == fuel * co2_per_kg_fuel

baseline_fuel == 700
operating_days == 330
hours_per_day == 24
unit_price == 15

\* The operands of the subtraction in line 139 exchanged
Savings_reversed(fuel) == (fuel - baseline_fuel) * operating_days * hours_per_day

\* line 139, kg/year
Savings(fuel) == (baseline_fuel - fuel) * operating_days * hours_per_day
Co2Saved(sv) == sv * co2_per_kg_fuel
MoneySaved(sv) == sv * unit_price

----------------------------------------------------------------------------
(* The script *)

Init ==
    /\ pc = "derive"
    /\ fuel_rate \in FuelRateValues
    /\ motor_speed \in MotorSpeedValues
    /\ feed_rate \in FeedRateValues
    /\ temp_setpoint \in SetpointValues
    /\ gains_bound \in BOOLEAN
    /\ IF gains_bound
       THEN Kp \in GainValues /\ Ki \in IntegralGainValues /\ Kd \in IntegralGainValues
       ELSE Kp = 0 /\ Ki = 0 /\ Kd = 0
    /\ fault = "none"
    /\ residence_time = 0
    /\ efficiency_factor = 0
    /\ n = 0
    /\ t = 0
    /\ T = 0
    /\ T_ref = 0
    /\ error = 0
    /\ integral = 0
    /\ derivative = 0
    /\ control_signal = 0
    /\ fuel_rate_adjusted = 0
    /\ final_temp = 0
    /\ quality = "unset"
    /\ co2_emitted = 0
    /\ savings = 0
    /\ co2_saved = 0
    /\ money_saved = 0

inputs == << fuel_rate, motor_speed, feed_rate, temp_setpoint, gains_bound,
            Kp, Ki, Kd >>
locals == << error, integral, derivative, control_signal, fuel_rate_adjusted >>
results == << final_temp, quality, co2_emitted, savings, co2_saved, money_saved >>

\* lines 33-34, then lines 57-58 and the first row of odeint's output
Derive ==
    /\ pc = "derive"
    /\ IF motor_speed = 0
       THEN /\ fault' = "ZeroDivisionError"
            /\ pc' = "crashed"
            /\ UNCHANGED << residence_time, efficiency_factor, n, t, T, T_ref >>
       ELSE /\ residence_time' = ResidenceTime(motor_speed)
            /\ efficiency_factor' = EfficiencyFactor(ResidenceTime(motor_speed))
            /\ n' = 1
            /\ t' = time[1]
            /\ T' = initial_temp * TempScale
            /\ T_ref' = initial_temp * TempScale
            /\ pc' = "solve"
            /\ fault' = fault
    /\ UNCHANGED << inputs, locals, results >>

\* line 61: odeint advances from time[n] to time[n+1].  The library's
\* integrator is represented by one evaluation of kiln_model at the current
\* sample and a forward step over the sample interval.  With Kp, Ki, Kd
\* unbound, line 38 raises inside the first evaluation, after line 42 has
\* computed the error.
OdeStep ==
    /\ pc = "solve"
    /\ n < num_points
    /\ LET r == kiln_model(T, t, fuel_rate, feed_rate, efficiency_factor,
                           temp_setpoint, Kp, Ki, Kd)
           ref == kiln_model(T_ref, 0, fuel_rate, feed_rate_default,
                             efficiency_factor, temp_setpoint, Kp, Ki, Kd)
           h == time[n + 1] - time[n]
       IN  IF gains_bound
           THEN /\ error' = r.error
                /\ integral' = r.integral
                /\ derivative' = r.derivative
                /\ control_signal' = r.control_signal
                /\ fuel_rate_adjusted' = r.fuel_rate_adjusted
                /\ T' = T + MulDiv(r.dTdt, h, num_points - 1)
                /\ T_ref' = T_ref + MulDiv(ref.dTdt, h, num_points - 1)
                /\ n' = n + 1
                /\ t' = time[n + 1]
                /\ pc' = IF n + 1 = num_points THEN "classify" ELSE "solve"
                /\ fault' = fault
           ELSE /\ error' = r.error
                /\ fault' = "NameError"
                /\ pc' = "crashed"
                /\ UNCHANGED << integral, derivative, control_signal,
                                fuel_rate_adjusted, T, T_ref, n, t >>
    /\ UNCHANGED << inputs, residence_time, efficiency_factor, results >>

\* lines 64-72
Classify ==
    /\ pc = "classify"
    /\ final_temp' = T
    /\ quality' = Quality(T)
    /\ pc' = "emissions"
    /\ UNCHANGED << inputs, fault, residence_time, efficiency_factor, n, t, T,
                    T_ref, locals, co2_emitted, savings, co2_saved, money_saved >>

\* line 75
Emissions ==
    /\ pc = "emissions"
    /\ co2_emitted' = Co2Emitted(fuel_rate)
    /\ pc' = "display"
    /\ UNCHANGED << inputs, fault, residence_time, efficiency_factor, n, t, T,
                    T_ref, locals, final_temp, quality, savings, co2_saved,
                    money_saved >>

\* lines 77-133: the figure and the three st.write lines; line 131 formats
\* final_temp = temperature[-1], a one-element array, as a float
Display ==
    /\ pc = "display"
    /\ \/ pc' = "savings" /\ fault' = fault
       \/ pc' = "crashed" /\ fault' = "TypeError"
    /\ UNCHANGED << inputs, residence_time, efficiency_factor, n, t, T, T_ref,
                    locals, results >>

\* lines 136-141
SavingsEstimate ==
    /\ pc = "savings"
    /\ savings' = Savings(fuel_rate)
    /\ co2_saved' = Co2Saved(Savings(fuel_rate))
    /\ money_saved' = MoneySaved(Savings(fuel_rate))
    /\ pc' = "done"
    /\ UNCHANGED << inputs, fault, residence_time, efficiency_factor, n, t, T,
                    T_ref, locals, final_temp, quality, co2_emitted >>

Next == Derive \/ OdeStep \/ Classify \/ Emissions \/ Display \/ SavingsEstimate

Spec == Init /\ [][Next]_vars

----------------------------------------------------------------------------
(* The classification on its own: lines 64-72 applied to any final         *)
(* temperature the solver could hand over, followed by the report.         *)

QualityTemps ==
    { c * TempScale : c \in { 1000, 1100, 1199, 1200, 1201, 1349, 1350, 1351,
                              1400, 1499, 1500 } }
        \cup { partial_threshold * TempScale - 1, good_threshold * TempScale - 1 }

InitQ ==
    /\ pc = "classify"
    /\ fuel_rate \in FuelRateValues
    /\ motor_speed \in MotorSpeedValues
    /\ feed_rate = feed_rate_default
    /\ temp_setpoint \in SetpointValues
    /\ gains_bound = TRUE
    /\ Kp = 0
    /\ Ki = 0
    /\ Kd = 0
    /\ fault = "none"
    /\ residence_time = ResidenceTime(motor_speed)
    /\ efficiency_factor = EfficiencyFactor(ResidenceTime(motor_speed))
    /\ n = num_points
    /\ t = time[num_points]
    /\ T \in QualityTemps
    /\ T_ref = T
    /\ LET r == kiln_model(T, t, fuel_rate, feed_rate, efficiency_factor,
                           temp_setpoint, Kp, Ki, Kd)
       IN  /\ error = r.error
           /\ integral = r.integral
           /\ derivative = r.derivative
           /\ control_signal = r.control_signal
           /\ fuel_rate_adjusted = r.fuel_rate_adjusted
    /\ final_temp = 0
    /\ quality = "unset"
    /\ co2_emitted = 0
    /\ savings = 0
    /\ co2_saved = 0
    /\ money_saved = 0

NextQ == Classify \/ Emissions \/ Display \/ SavingsEstimate

SpecQuality == InitQ /\ [][NextQ]_vars

----------------------------------------------------------------------------
(* Properties *)

\* one second, in the unit of t
Second == num_points - 1

Evaluated == n >= 2
Classified == quality # "unset"
Reported == pc \in {"display", "savings", "done"}

\* C1: whenever kiln_model has been evaluated, the fuel rate it used for the
\* heat input lies between 100 and 1000 kg/hr, whatever the base fuel rate,
\* setpoint, temperature and gains, also when base + control is outside.
C1_ActuationBounds ==
    Evaluated => /\ min_fuel_rate * Milli <= fuel_rate_adjusted
                 /\ fuel_rate_adjusted <= max_fuel_rate * Milli

C1_Witness ==
    /\ Evaluated
    /\ fuel_rate * Milli + control_signal > max_fuel_rate * Milli
    /\ fuel_rate_adjusted = max_fuel_rate * Milli

\* C2: the reported CO2 rate equals the actuated (clamped) fuel rate of the
\* thermal model times the emission factor.
C2_Co2FromActuatedRate ==
    Reported => co2_emitted * Milli = fuel_rate_adjusted * co2_per_kg_fuel

\* C3 (as stated): consecutive sample times increase by exactly dt = 1 s.
C3_UnitTimeStep ==
    [][(n >= 1 /\ n' = n + 1) => (t' > t /\ t' - t = Second)]_vars

\* C3 (amended): consecutive sample times are strictly increasing and differ
\* by (3600 - 0) / (1000 - 1) s, which is not one second; the last sample is
\* at 3600 s.
C3_LinspaceTimeStep ==
    [][(n >= 1 /\ n' = n + 1) =>
          /\ t' > t
          /\ (t' - t) * (num_points - 1) = (time_stop - time_start) * Second
          /\ t' - t # Second
          /\ (n' = num_points => t' = time_stop * Second)]_vars

C3_Witness == n = num_points /\ t = time_stop * Second /\ pc = "done"

C7_TemperatureRises ==
    /\ [](Classified => final_temp > initial_temp * TempScale)
    /\ [][(n >= 1 /\ n' = n + 1) => T' >= T]_vars

C7_Witness ==
    /\ pc = "done"
    /\ fuel_rate = min_fuel_rate
    /\ motor_speed = 50
    /\ fuel_rate_adjusted = min_fuel_rate * Milli
    /\ final_temp > initial_temp * TempScale

\* C8: at every evaluation the integral grows by error * dt, the derivative
\* is the change of the error over dt, and the control signal is
\* Kp*error + Ki*integral + Kd*derivative of those.
C8_PidKeepsState ==
    [][(n >= 1 /\ n' = n + 1) =>
          /\ integral' = integral + MulDiv(error', t' - t, Second)
          /\ derivative' = MulDiv(error' - error, Second, t' - t)
          /\ control_signal' = Kp * error' + Ki * integral' + Kd * derivative']_vars

\* C9: the trajectory, the final temperature and the classification are the
\* same as those of a run with another feed rate and time argument.
C9_FeedRateIgnored ==
    /\ T = T_ref
    /\ Classified => (final_temp = T_ref /\ quality = Quality(T_ref))

C9_Witness ==
    /\ pc = "done"
    /\ feed_rate # feed_rate_default
    /\ final_temp = T_ref
    /\ final_temp > initial_temp * TempScale

\* C10: the temperature stays below 1200 degrees at every sample, so every
\* run is classified Poor.
C10_AlwaysPoor ==
    /\ T < 1200 * TempScale
    /\ quality \in {"unset", "Poor"}
    /\ Classified => (quality = "Poor" /\ final_temp < 1200 * TempScale)

C10_Witness ==
    /\ pc = "done"
    /\ quality = "Poor"
    /\ fuel_rate_adjusted = max_fuel_rate * Milli
    /\ efficiency_factor = Milli
    /\ final_temp > (initial_temp + 23) * TempScale

====
